---- MODULE Spec2Model ----
(***************************************************************************)
(* Model of two components of the rollup node:                             *)
(*   - DefaultStateManager.executeTransaction                              *)
(*       packages/core/src/app/client/state-manager.ts                     *)
(*   - DefaultWeb3Handler (sendRawTransaction and friends)                 *)
(*       packages/rollup-full-node/src/app/handler.ts                      *)
(* Every await of the TypeScript code is a point where another call may    *)
(* run, so every action below is the synchronous code between two awaits.  *)
(***************************************************************************)
EXTENDS Integers, Sequences, FiniteSets, TLC

(***************************************************************************)
(* Bounds of the model.                                                    *)
(***************************************************************************)
MaxCoord == 2
MaxUpdates == 2

(***************************************************************************)
(* Values                                                                  *)
(***************************************************************************)
None == "undefined"
\* result.stateUpdate before any candidate was stored
Undefined == [plasmaBlockNumber |-> -1, data |-> "undefined", id |-> "undefined"]
\* a hex string variable that holds nothing yet
NoHex == <<>>
NoPredicate == "none"
PredicateIds == {"p1", "p2"}
Coord == 0..MaxCoord

\* Range { start, end }: the well-formed ranges, and one empty and one
\* inverted range.
WellFormedRanges == {r \in [start : Coord, end : Coord] : r.start < r.end}
MalformedRanges == {[start |-> 1, end |-> 1], [start |-> MaxCoord, end |-> 0]}
Ranges == WellFormedRanges \cup MalformedRanges

\* The block numbers a verified update carries, and those a predicate gives
\* to the StateUpdate it returns.
VerifiedBlockNumbers == {0, 1}
PlasmaBlockNumbers == {0, 1, 2}

\* VerifiedStateUpdate { stateUpdate: { range, stateObject: { predicate } },
\* verifiedBlockNumber }, flattened.  An update that fails a check is not
\* read any further, so a malformed update has one predicate and one block
\* number, and an update of the unregistered predicate "p2" one block number.
VerifiedStateUpdates ==
  [range : WellFormedRanges, predicate : {"p1"}, verifiedBlockNumber : VerifiedBlockNumbers]
    \cup [range : WellFormedRanges, predicate : {"p2"}, verifiedBlockNumber : {0}]
    \cup [range : MalformedRanges, predicate : {"p1"}, verifiedBlockNumber : {0}]

\* Transaction { range, predicate reference }.
Transactions ==
  [range : Ranges, predicate : {"p1"}]
    \cup {[range |-> [start |-> 0, end |-> MaxCoord], predicate |-> NoPredicate]}

\* A StateUpdate object returned by a predicate plugin.  Two objects with the
\* same plasmaBlockNumber and data but different id are equal in value and
\* are different objects (different references).
ObjectIds == {"o1", "o2"}
StateUpdateObjects ==
  [plasmaBlockNumber : PlasmaBlockNumbers, data : {"A", "B"}, id : ObjectIds]

SameValue(a, b) ==
  a.plasmaBlockNumber = b.plasmaBlockNumber /\ a.data = b.data

RECURSIVE SeqsUpTo(_, _)
SeqsUpTo(S, n) ==
  IF n = 0 THEN {<<>>}
  ELSE LET shorter == SeqsUpTo(S, n - 1)
       IN shorter \cup {Append(s, x) : s \in {t \in shorter : Len(t) = n - 1}, x \in S}

\* What the state store may answer to getVerifiedStateUpdates.
StoreContents == SeqsUpTo(VerifiedStateUpdates, MaxUpdates)

(***************************************************************************)
(* Helpers of state-manager.ts                                             *)
(***************************************************************************)
\* isValidTransaction (common/utils): range.start < range.end and a predicate
\* reference is present.
isValidTransaction(tx) ==
  tx.range.start < tx.range.end /\ tx.predicate # NoPredicate

\* isValidVerifiedStateUpdate (common/utils): the update's range satisfies
\* the Range invariant start < end.
isValidVerifiedStateUpdate(u) ==
  u.range.start < u.range.end

\* BigNum.max / BigNum.min
bnMax(a, b) == IF a > b THEN a ELSE b
bnMin(a, b) == IF a < b THEN a ELSE b

\* stateDB.getVerifiedStateUpdates(start, end): the store is an external
\* oracle; the engine's own overlap check treats any answer as possible, so
\* the answer is the store's content, not filtered by the engine.
getVerifiedStateUpdates(db, start, end) == db

\* Faulty variant of the overlap check: only an update that ends before the
\* transaction starts is refused.
NoOverlapLeftOnly(tx, u) ==
  u.range.end <= tx.range.start

\* Line 69: the ranges do not overlap.
NoOverlap(tx, u) ==
  u.range.end <= tx.range.start \/ u.range.start >= tx.range.end

\* Faulty variant of the pushed range: the update's range, not clipped.
ValidRangeOfUpdate(tx, u) == u.range

\* Lines 97-100: the validated sub-range pushed to result.validRanges.
ValidRange(tx, u) ==
  [start |-> bnMax(tx.range.start, u.range.start),
   end   |-> bnMin(tx.range.end, u.range.end)]

\* Faulty variant of the comparison: only the block numbers are compared.
DifferentBlockNumber(a, b) == a.plasmaBlockNumber # b.plasmaBlockNumber

\* Line 104: result.stateUpdate !== computedState compares references.
DifferentState(a, b) == a # b

\* Faulty variant of the block number check: only a block number that does
\* not advance is refused.
BlockNumberNotAdvanced(computed, u) ==
  computed.plasmaBlockNumber <= u.verifiedBlockNumber

\* Lines 86-89
WrongBlockNumber(computed, u) ==
  computed.plasmaBlockNumber # u.verifiedBlockNumber + 1

(***************************************************************************)
(* State                                                                   *)
(***************************************************************************)
ECalls == {1, 2}

VARIABLES
  stateDB,        \* the state store: the verified updates it answers with
  pluginManager,  \* the predicate registry: the registered predicate ids
  engine,         \* DefaultStateManager's fields stateDB and pluginManager
  epc,            \* per call: position in executeTransaction
  etx,            \* per call: the transaction argument
  eups,           \* per call: verifiedUpdates (line 49)
  eidx,           \* per call: index of the update the for loop is at
  eres,           \* per call: result { stateUpdate, validRanges }
  eerr,           \* per call: the error thrown, None if none
  ereads,         \* per call: number of getVerifiedStateUpdates calls issued
  egets,          \* per call: number of pluginManager.getPlugin calls issued
  eyield          \* per call: the candidates the predicates returned, in order

evars == <<stateDB, pluginManager, engine, epc, etx, eups, eidx, eres, eerr,
           ereads, egets, eyield>>

NoTx == [range |-> [start |-> 0, end |-> 0], predicate |-> NoPredicate]
EmptyResult == [stateUpdate |-> Undefined, validRanges |-> <<>>]

EngineInit ==
  /\ stateDB \in StoreContents
  /\ pluginManager = {"p1"}
  /\ engine = [stateDB |-> "stateDB", pluginManager |-> "pluginManager"]
  /\ epc = [c \in ECalls |-> "idle"]
  /\ etx = [c \in ECalls |-> NoTx]
  /\ eups = [c \in ECalls |-> <<>>]
  /\ eidx = [c \in ECalls |-> 0]
  /\ eres = [c \in ECalls |-> EmptyResult]
  /\ eerr = [c \in ECalls |-> None]
  /\ ereads = [c \in ECalls |-> 0]
  /\ egets = [c \in ECalls |-> 0]
  /\ eyield = [c \in ECalls |-> <<>>]

Throw(c, e) ==
  /\ epc' = [epc EXCEPT ![c] = "failed"]
  /\ eerr' = [eerr EXCEPT ![c] = e]

(***************************************************************************)
(* executeTransaction, state-manager.ts lines 33-115                       *)
(***************************************************************************)
\* Faulty variant of the start of the call: the transaction is not validated.
ExecBeginUnchecked(c, tx) ==
  /\ epc[c] = "idle"
  /\ etx' = [etx EXCEPT ![c] = tx]
  /\ eres' = [eres EXCEPT ![c] = EmptyResult]
  /\ epc' = [epc EXCEPT ![c] = "query"]
  /\ UNCHANGED <<stateDB, pluginManager, engine, eups, eidx, eerr, ereads, egets, eyield>>

\* Lines 36-45: the result is created and the transaction is validated.
ExecBegin(c, tx) ==
  /\ epc[c] = "idle"
  /\ etx' = [etx EXCEPT ![c] = tx]
  /\ eres' = [eres EXCEPT ![c] = EmptyResult]
  /\ IF ~isValidTransaction(tx)
       THEN Throw(c, "InvalidTransaction")
       ELSE /\ epc' = [epc EXCEPT ![c] = "query"]
            /\ UNCHANGED eerr
  /\ UNCHANGED <<stateDB, pluginManager, engine, eups, eidx, ereads, egets, eyield>>

\* Faulty variant of the store query: the updates read are taken out of the
\* store.
ExecQueryDraining(c) ==
  /\ epc[c] = "query"
  /\ eups' = [eups EXCEPT ![c] =
                getVerifiedStateUpdates(stateDB, etx[c].range.start, etx[c].range.end)]
  /\ stateDB' = <<>>
  /\ ereads' = [ereads EXCEPT ![c] = @ + 1]
  /\ eidx' = [eidx EXCEPT ![c] = 1]
  /\ epc' = [epc EXCEPT ![c] = "loop"]
  /\ UNCHANGED <<pluginManager, engine, etx, eres, eerr, egets, eyield>>

\* Lines 48-52: the store is asked for the verified updates of the range.
ExecQuery(c) ==
  /\ epc[c] = "query"
  /\ eups' = [eups EXCEPT ![c] =
                getVerifiedStateUpdates(stateDB, etx[c].range.start, etx[c].range.end)]
  /\ ereads' = [ereads EXCEPT ![c] = @ + 1]
  /\ eidx' = [eidx EXCEPT ![c] = 1]
  /\ epc' = [epc EXCEPT ![c] = "loop"]
  /\ UNCHANGED <<stateDB, pluginManager, engine, etx, eres, eerr, egets, eyield>>

\* Faulty variant of the loop: an update is not checked for well-formedness.
ExecLoopUnchecked(c) ==
  /\ epc[c] = "loop"
  /\ IF eidx[c] > Len(eups[c])
       THEN /\ epc' = [epc EXCEPT ![c] = "done"]
            /\ UNCHANGED <<eerr, egets>>
       ELSE LET u == eups[c][eidx[c]]
            IN IF NoOverlap(etx[c], u)
                 THEN Throw(c, "RangeMismatch") /\ UNCHANGED egets
                 ELSE /\ epc' = [epc EXCEPT ![c] = "plugin"]
                      /\ egets' = [egets EXCEPT ![c] = @ + 1]
                      /\ UNCHANGED eerr
  /\ UNCHANGED <<stateDB, pluginManager, engine, etx, eups, eidx, eres, ereads, eyield>>

\* Faulty variant of the loop: an empty answer of the store is an error.
ExecLoopEmptyFails(c) ==
  /\ epc[c] = "loop"
  /\ IF Len(eups[c]) = 0
       THEN Throw(c, "NoVerifiedUpdates") /\ UNCHANGED egets
       ELSE IF eidx[c] > Len(eups[c])
              THEN /\ epc' = [epc EXCEPT ![c] = "done"]
                   /\ UNCHANGED <<eerr, egets>>
              ELSE LET u == eups[c][eidx[c]]
                   IN IF ~isValidVerifiedStateUpdate(u)
                        THEN Throw(c, "InvalidVerifiedUpdate") /\ UNCHANGED egets
                        ELSE IF NoOverlap(etx[c], u)
                               THEN Throw(c, "RangeMismatch") /\ UNCHANGED egets
                               ELSE /\ epc' = [epc EXCEPT ![c] = "plugin"]
                                    /\ egets' = [egets EXCEPT ![c] = @ + 1]
                                    /\ UNCHANGED eerr
  /\ UNCHANGED <<stateDB, pluginManager, engine, etx, eups, eidx, eres, ereads, eyield>>

\* Lines 55-78 and 114: the loop head, the checks made before the plugin is
\* asked for, and the return after the last update.
ExecLoop(c) ==
  /\ epc[c] = "loop"
  /\ IF eidx[c] > Len(eups[c])
       THEN /\ epc' = [epc EXCEPT ![c] = "done"]
            /\ UNCHANGED <<eerr, egets>>
       ELSE LET u == eups[c][eidx[c]]
            IN IF ~isValidVerifiedStateUpdate(u)
                 THEN Throw(c, "InvalidVerifiedUpdate") /\ UNCHANGED egets
                 ELSE IF NoOverlap(etx[c], u)
                        THEN Throw(c, "RangeMismatch") /\ UNCHANGED egets
                        ELSE /\ epc' = [epc EXCEPT ![c] = "plugin"]
                             /\ egets' = [egets EXCEPT ![c] = @ + 1]
                             /\ UNCHANGED eerr
  /\ UNCHANGED <<stateDB, pluginManager, engine, etx, eups, eidx, eres, ereads, eyield>>

\* Faulty variant of the plugin lookup: an unregistered predicate gets a
\* plugin like any other.
ExecGetPluginAny(c) ==
  /\ epc[c] = "plugin"
  /\ epc' = [epc EXCEPT ![c] = "transition"]
  /\ UNCHANGED <<stateDB, pluginManager, engine, etx, eups, eidx, eres, eerr,
                 ereads, egets, eyield>>

\* Lines 76-78: pluginManager.getPlugin answers.
ExecGetPlugin(c) ==
  /\ epc[c] = "plugin"
  /\ IF eups[c][eidx[c]].predicate \in pluginManager
       THEN epc' = [epc EXCEPT ![c] = "transition"] /\ UNCHANGED eerr
       ELSE Throw(c, "UnknownPredicate")
  /\ UNCHANGED <<stateDB, pluginManager, engine, etx, eups, eidx, eres, ereads,
                 egets, eyield>>

\* Faulty variant of the merge: the candidate is compared with the earlier
\* one before its block number is checked.
ExecTransitionConsistencyFirst(c, computedState) ==
  /\ epc[c] = "transition"
  /\ eyield' = [eyield EXCEPT ![c] = Append(@, computedState)]
  /\ LET u == eups[c][eidx[c]]
         pushed == Append(eres[c].validRanges, ValidRange(etx[c], u))
     IN IF eres[c].stateUpdate # Undefined
             /\ DifferentState(eres[c].stateUpdate, computedState)
          THEN Throw(c, "InconsistentTransition") /\ UNCHANGED <<eres, eidx>>
          ELSE IF WrongBlockNumber(computedState, u)
                 THEN Throw(c, "BlockNumberMismatch") /\ UNCHANGED <<eres, eidx>>
                 ELSE /\ eres' = [eres EXCEPT ![c] =
                                    [stateUpdate |-> computedState, validRanges |-> pushed]]
                      /\ eidx' = [eidx EXCEPT ![c] = @ + 1]
                      /\ epc' = [epc EXCEPT ![c] = "loop"]
                      /\ UNCHANGED eerr
  /\ UNCHANGED <<stateDB, pluginManager, engine, etx, eups, ereads, egets>>

\* Lines 80-112: the predicate returns computedState; the block number is
\* checked, the range is pushed and the result is merged.
ExecTransition(c, computedState) ==
  /\ epc[c] = "transition"
  /\ eyield' = [eyield EXCEPT ![c] = Append(@, computedState)]
  /\ LET u == eups[c][eidx[c]]
         pushed == Append(eres[c].validRanges, ValidRange(etx[c], u))
     IN IF WrongBlockNumber(computedState, u)
          THEN Throw(c, "BlockNumberMismatch") /\ UNCHANGED <<eres, eidx>>
          ELSE IF eres[c].stateUpdate = Undefined
                 THEN /\ eres' = [eres EXCEPT ![c] =
                                    [stateUpdate |-> computedState, validRanges |-> pushed]]
                      /\ eidx' = [eidx EXCEPT ![c] = @ + 1]
                      /\ epc' = [epc EXCEPT ![c] = "loop"]
                      /\ UNCHANGED eerr
                 ELSE IF DifferentState(eres[c].stateUpdate, computedState)
                        THEN \* validRanges.pop() takes the pushed range off again
                             /\ eres' = [eres EXCEPT ![c].validRanges =
                                           SubSeq(pushed, 1, Len(pushed) - 1)]
                             /\ Throw(c, "InconsistentTransition")
                             /\ UNCHANGED eidx
                        ELSE /\ eres' = [eres EXCEPT ![c].validRanges = pushed]
                             /\ eidx' = [eidx EXCEPT ![c] = @ + 1]
                             /\ epc' = [epc EXCEPT ![c] = "loop"]
                             /\ UNCHANGED eerr
  /\ UNCHANGED <<stateDB, pluginManager, engine, etx, eups, ereads, egets>>

(***************************************************************************)
(* ingestHistoryProof and queryState, state-manager.ts lines 117-123       *)
(***************************************************************************)
\* The arguments the two methods may be called with.
HistoryProofs == {"proof1", "proof2"}
StateQueries == {"query1", "query2"}

\* Lines 117-119
IngestHistoryProof(c, historyProof) ==
  /\ epc[c] = "idle"
  /\ Throw(c, "DefaultStateManager.ingestHistoryProof is not implemented.")
  /\ UNCHANGED <<stateDB, pluginManager, engine, etx, eups, eidx, eres, ereads,
                 egets, eyield>>

\* Faulty variant of queryState: the store is read and its answer returned.
QueryStateAnswering(c, query) ==
  /\ epc[c] = "idle"
  /\ eups' = [eups EXCEPT ![c] = stateDB]
  /\ ereads' = [ereads EXCEPT ![c] = @ + 1]
  /\ epc' = [epc EXCEPT ![c] = "done"]
  /\ UNCHANGED <<stateDB, pluginManager, engine, etx, eidx, eres, eerr, egets,
                 eyield>>

\* Lines 121-123
QueryState(c, query) ==
  /\ epc[c] = "idle"
  /\ Throw(c, "DefaultStateManager.queryState is not implemented.")
  /\ UNCHANGED <<stateDB, pluginManager, engine, etx, eups, eidx, eres, ereads,
                 egets, eyield>>

(***************************************************************************)
(* Execution bridge: values and helpers of handler.ts                      *)
(***************************************************************************)
NumCalls == 2
BCalls == 1..NumCalls

RECURSIVE Repeat(_, _)
\* '00'.repeat(n)
Repeat(b, n) == IF n = 0 THEN <<>> ELSE <<b>> \o Repeat(b, n - 1)

\* A hex string is the sequence of its bytes, after "0x" when it is prefixed.
remove0x(s) == IF Len(s) > 0 /\ s[1] = "0x" THEN Tail(s) ELSE s
add0x(s) == IF Len(s) > 0 /\ s[1] = "0x" THEN s ELSE <<"0x">> \o s

ZERO_ADDRESS == <<"0x">> \o Repeat("00", 20)
AddressA == <<"0x">> \o Repeat("00", 19) \o <<"aa">>
\* this.executionManager.address
ExecutionManagerAddress == <<"0x">> \o Repeat("00", 19) \o <<"ee">>
Null == <<"null">>

\* ethereumjsAbi.methodID('executeCall', []).toString('hex'): four bytes
MethodIdExecuteCall == <<"ec0", "ec1", "ec2", "ec3">>

\* Faulty variant of the packing: the entrypoint is not padded to a word.
getExecutionMgrTxDataUnpadded(ovmEntrypoint, ovmCalldata) ==
  LET methodId == MethodIdExecuteCall
      timestamp == Repeat("00", 32)
      origin == Repeat("00", 32)
      encodedEntrypoint == remove0x(ovmEntrypoint)
  IN <<"0x">> \o methodId \o timestamp \o origin \o encodedEntrypoint
       \o remove0x(ovmCalldata)

\* Lines 380-393
getExecutionMgrTxData(ovmEntrypoint, ovmCalldata) ==
  LET methodId == MethodIdExecuteCall
      timestamp == Repeat("00", 32)
      origin == Repeat("00", 32)
      encodedEntrypoint == Repeat("00", 12) \o remove0x(ovmEntrypoint)
  IN <<"0x">> \o methodId \o timestamp \o origin \o encodedEntrypoint
       \o remove0x(ovmCalldata)

\* The decoded rollup transactions a raw transaction may carry
\* (utils.parseTransaction, line 320).
OvmTxs ==
  [to : {Null, AddressA}, data : {<<"0x", "01">>}, gasLimit : {21000}]

\* A raw transaction is the serialisation of its fields.
RawTxs == {<<"0x", "raw", t>> : t \in OvmTxs}
parseTransaction(raw) == raw[3]

\* utils.keccak256: a prefixed digest, different for different contents.
keccak256(x) == <<"0x", "keccak", x>>

\* wallet.sign(tx): the serialised signed transaction.
sign(tx) == <<"0x", "signed", tx>>
SignedFields(signed) == signed[3]

\* Faulty variant of the internal transaction: it is sent to the rollup
\* entrypoint itself.
InternalTxDirect(ovmTx, nonce) ==
  LET ovmEntrypoint == IF ovmTx.to = Null THEN ZERO_ADDRESS ELSE ovmTx.to
      internalCalldata == getExecutionMgrTxData(ovmEntrypoint, ovmTx.data)
  IN [nonce |-> nonce, gasPrice |-> 0, gasLimit |-> ovmTx.gasLimit,
      to |-> ovmEntrypoint, value |-> 0, data |-> internalCalldata]

\* Lines 328-343: the internal transaction built for a decoded rollup
\* transaction and a nonce.
InternalTx(ovmTx, nonce) ==
  LET ovmEntrypoint == IF ovmTx.to = Null THEN ZERO_ADDRESS ELSE ovmTx.to
      internalCalldata == getExecutionMgrTxData(ovmEntrypoint, ovmTx.data)
  IN [nonce |-> nonce, gasPrice |-> 0, gasLimit |-> ovmTx.gasLimit,
      to |-> ExecutionManagerAddress, value |-> 0, data |-> internalCalldata]

\* Faulty variant of the nonce: the wallet's count itself.
NonceSameAsCount(count) == count

\* Line 325: + 1 because a hash mapping transaction is sent first.
NonceFor(count) == count + 1

\* Faulty variant of the comparison: only the lengths are compared.
HashesDifferInLength(internalTxHash, returnedInternalTxHash) ==
  Len(remove0x(internalTxHash)) # Len(remove0x(returnedInternalTxHash))

\* Line 282
HashesDiffer(internalTxHash, returnedInternalTxHash) ==
  remove0x(internalTxHash) # remove0x(returnedInternalTxHash)

OvmHashes == {keccak256(r) : r \in RawTxs}

\* The execution manager's storage of hash mappings, as the bridge uses it:
\* a write stores the value under the key, whatever was there before; a
\* read gives the stored value, the zero value for a key never written.
mapOvmTransactionHashToInternalTransactionHash(map, ovmTxHash, internalTxHash) ==
  [map EXCEPT ![ovmTxHash] = internalTxHash]

getInternalTransactionHash(map, ovmTxHash) ==
  IF ovmTxHash \in DOMAIN map THEN map[ovmTxHash] ELSE NoHex

VARIABLES
  walletCount,  \* the ledger's transaction count of the bridge's wallet
  hashMap,      \* the execution manager's ovmTxHash -> internalTxHash storage
  ledgerTxs,    \* the internal transactions the ledger accepted
  bpc,          \* per call: position in sendRawTransaction
  braw,         \* per call: rawOvmTx
  bnonce,       \* per call: nonce (line 325)
  binternal,    \* per call: internalTx, the signed internal transaction
  bovmHash,     \* per call: ovmTxHash
  bintHash,     \* per call: internalTxHash
  breturned,    \* per call: returnedInternalTxHash
  bres,         \* per call: the value returned
  berr,         \* per call: the error thrown, None if none
  bmaps,        \* per call: number of mapping writes issued
  bsubs,        \* per call: number of submissions issued
  bmapNonce,    \* per call: the ledger nonce its mapping write was mined with
  bsubCount     \* per call: the wallet's count when its submission was accepted

bvars == <<walletCount, hashMap, ledgerTxs, bpc, braw, bnonce, binternal,
           bovmHash, bintHash, breturned, bres, berr, bmaps, bsubs, bmapNonce,
           bsubCount>>

BridgeInit ==
  \* DefaultWeb3Handler.create deployed the execution manager from the wallet
  /\ walletCount = 1
  /\ hashMap = [h \in OvmHashes |-> NoHex]
  /\ ledgerTxs = {}
  /\ bpc = [b \in BCalls |-> "idle"]
  /\ braw = [b \in BCalls |-> NoHex]
  /\ bnonce = [b \in BCalls |-> -1]
  /\ binternal = [b \in BCalls |-> NoHex]
  /\ bovmHash = [b \in BCalls |-> NoHex]
  /\ bintHash = [b \in BCalls |-> NoHex]
  /\ breturned = [b \in BCalls |-> NoHex]
  /\ bres = [b \in BCalls |-> NoHex]
  /\ berr = [b \in BCalls |-> None]
  /\ bmaps = [b \in BCalls |-> 0]
  /\ bsubs = [b \in BCalls |-> 0]
  /\ bmapNonce = [b \in BCalls |-> -1]
  /\ bsubCount = [b \in BCalls |-> -1]

BThrow(b, e) ==
  /\ bpc' = [bpc EXCEPT ![b] = "failed"]
  /\ berr' = [berr EXCEPT ![b] = e]

(***************************************************************************)
(* sendRawTransaction, handler.ts lines 265-291, with ovmTxToInternalTx    *)
(* (318-346) and mapOvmTxHashToInternalTxHash (301-309)                    *)
(***************************************************************************)
\* Lines 266-268 and 320-325: the call starts, the raw transaction is parsed
\* and the wallet's transaction count is asked for.
SendBegin(b, raw) ==
  /\ bpc[b] = "idle"
  /\ braw' = [braw EXCEPT ![b] = raw]
  /\ bpc' = [bpc EXCEPT ![b] = "count"]
  /\ UNCHANGED <<walletCount, hashMap, ledgerTxs, bnonce, binternal, bovmHash,
                 bintHash, breturned, bres, berr, bmaps, bsubs, bmapNonce, bsubCount>>

\* Lines 325-345 and 270-274: the count arrives, the internal transaction is
\* built and signed, both hashes are computed and the mapping write is issued.
SendSign(b) ==
  /\ bpc[b] = "count"
  /\ LET nonce == NonceFor(walletCount)
         internalTx == sign(InternalTx(parseTransaction(braw[b]), nonce))
     IN /\ bnonce' = [bnonce EXCEPT ![b] = nonce]
        /\ binternal' = [binternal EXCEPT ![b] = internalTx]
        /\ bovmHash' = [bovmHash EXCEPT ![b] = keccak256(braw[b])]
        /\ bintHash' = [bintHash EXCEPT ![b] = keccak256(internalTx)]
  /\ bmaps' = [bmaps EXCEPT ![b] = @ + 1]
  /\ bpc' = [bpc EXCEPT ![b] = "map"]
  /\ UNCHANGED <<walletCount, hashMap, ledgerTxs, braw, breturned, bres, berr,
                 bsubs, bmapNonce, bsubCount>>

\* Lines 305-308 and 277-280: the mapping transaction, sent from the wallet
\* with the wallet's current count as its nonce, is mined; the internal
\* transaction is then submitted.
SendMapped(b) ==
  /\ bpc[b] = "map"
  /\ hashMap' = mapOvmTransactionHashToInternalTransactionHash(
                  hashMap, add0x(bovmHash[b]), add0x(bintHash[b]))
  /\ bmapNonce' = [bmapNonce EXCEPT ![b] = walletCount]
  /\ walletCount' = walletCount + 1
  /\ bsubs' = [bsubs EXCEPT ![b] = @ + 1]
  /\ bpc' = [bpc EXCEPT ![b] = "submit"]
  /\ UNCHANGED <<ledgerTxs, braw, bnonce, binternal, bovmHash, bintHash,
                 breturned, bres, berr, bmaps, bsubCount>>

\* Faulty variant of the failing mapping write: the error is swallowed and
\* the internal transaction is submitted all the same.
SendMapFailedIgnored(b, mined) ==
  /\ bpc[b] = "map"
  /\ walletCount' = IF mined THEN walletCount + 1 ELSE walletCount
  /\ bsubs' = [bsubs EXCEPT ![b] = @ + 1]
  /\ bpc' = [bpc EXCEPT ![b] = "submit"]
  /\ UNCHANGED <<hashMap, ledgerTxs, braw, bnonce, binternal, bovmHash, bintHash,
                 breturned, bres, berr, bmaps, bmapNonce, bsubCount>>

\* Lines 305-308: the mapping write fails and the error leaves
\* sendRawTransaction.  A reverted mapping transaction that was mined has
\* used the wallet's nonce; one that never reached a block has not.
SendMapFailed(b, mined) ==
  /\ bpc[b] = "map"
  /\ walletCount' = IF mined THEN walletCount + 1 ELSE walletCount
  /\ BThrow(b, "MappingPersistError")
  /\ UNCHANGED <<hashMap, ledgerTxs, braw, bnonce, binternal, bovmHash, bintHash,
                 breturned, bres, bmaps, bsubs, bmapNonce, bsubCount>>

\* The hashes the ledger may report for an accepted transaction: the digest
\* of what it received, with or without prefix, or something else.
ReportedHashes(signed) ==
  {keccak256(signed), remove0x(keccak256(signed)),
   keccak256(sign([SignedFields(signed) EXCEPT !.value = 1]))}

AllReportedHashes ==
  UNION {ReportedHashes(sign(InternalTx(t, n))) : t \in OvmTxs, n \in 0..(2 * NumCalls + 2)}

\* Lines 277-290: the ledger accepts the internal transaction, which needs
\* its nonce to be the wallet's count, and reports a hash; the hashes are
\* compared and ovmTxHash is returned.
SendAccepted(b, returned) ==
  /\ bpc[b] = "submit"
  /\ SignedFields(binternal[b]).nonce = walletCount
  /\ returned \in ReportedHashes(binternal[b])
  /\ ledgerTxs' = ledgerTxs \cup {binternal[b]}
  /\ bsubCount' = [bsubCount EXCEPT ![b] = walletCount]
  /\ walletCount' = walletCount + 1
  /\ breturned' = [breturned EXCEPT ![b] = returned]
  /\ IF HashesDiffer(bintHash[b], returned)
       THEN BThrow(b, "HashMismatch") /\ UNCHANGED bres
       ELSE /\ bpc' = [bpc EXCEPT ![b] = "done"]
            /\ bres' = [bres EXCEPT ![b] = bovmHash[b]]
            /\ UNCHANGED berr
  /\ UNCHANGED <<hashMap, braw, bnonce, binternal, bovmHash, bintHash, bmaps,
                 bsubs, bmapNonce>>

\* Faulty variant of the rejected submission: the internal transaction is
\* submitted again, twice at most, before the error is passed on.
SendRejectedRetried(b, reason) ==
  /\ bpc[b] = "submit"
  /\ reason = "nonce" <=> SignedFields(binternal[b]).nonce # walletCount
  /\ IF bsubs[b] < 3
       THEN /\ bsubs' = [bsubs EXCEPT ![b] = @ + 1]
            /\ UNCHANGED <<bpc, berr>>
       ELSE /\ BThrow(b, IF reason = "nonce" THEN "NonceRejected"
                                              ELSE "UnderlyingLedgerError")
            /\ UNCHANGED bsubs
  /\ UNCHANGED <<walletCount, hashMap, ledgerTxs, braw, bnonce, binternal,
                 bovmHash, bintHash, breturned, bres, bmaps, bmapNonce,
                 bsubCount>>

\* Lines 277-280: the ledger rejects the submission, because the nonce is
\* not the wallet's count (reason "nonce") or for a reason of its own.
SendRejected(b, reason) ==
  /\ bpc[b] = "submit"
  /\ reason = "nonce" <=> SignedFields(binternal[b]).nonce # walletCount
  /\ BThrow(b, IF reason = "nonce" THEN "NonceRejected" ELSE "UnderlyingLedgerError")
  /\ UNCHANGED <<walletCount, hashMap, ledgerTxs, braw, bnonce, binternal,
                 bovmHash, bintHash, breturned, bres, bmaps, bsubs, bmapNonce,
                 bsubCount>>

(***************************************************************************)
(* handleRequest and the read methods, handler.ts lines 62-256, with       *)
(* assertParameters (414-431) and internalTxReceiptToOvmTxReceipt (351-375)*)
(***************************************************************************)
\* Web3RpcMethods
blockNumber == "eth_blockNumber"
call == "eth_call"
estimateGas == "eth_estimateGas"
gasPrice == "eth_gasPrice"
getCode == "eth_getCode"
getExecutionManagerAddress == "ovm_getExecutionManagerAddress"
getTransactionCount == "eth_getTransactionCount"
getTransactionReceipt == "eth_getTransactionReceipt"
sendRawTransaction == "eth_sendRawTransaction"
networkVersion == "net_version"

SupportedMethods ==
  {blockNumber, call, estimateGas, gasPrice, getCode, getExecutionManagerAddress,
   getTransactionCount, getTransactionReceipt, sendRawTransaction, networkVersion}

\* The method names a request may carry: the supported ones and another.
Methods == SupportedMethods \cup {"eth_accounts"}

\* Line 25
latestBlock == "latest"
BlockTags == {"latest", "earliest"}

\* What a padded parameter list gets when no default is given (undefined).
UndefinedParam == <<"undefined">>

\* The objects a call or estimateGas request may carry.
TxObjects == [to : {AddressA}, data : {<<"0x", "01">>}]

\* The expected number of parameters and the default for the last one, as
\* the cases of lines 68-108 pass them to assertParameters.
Arity(method) ==
  CASE method \in {blockNumber, gasPrice, getExecutionManagerAddress, networkVersion} -> 0
    [] method \in {call, estimateGas, getCode, getTransactionCount} -> 2
    [] method \in {getTransactionReceipt, sendRawTransaction} -> 1

DefaultLast(method) ==
  IF method \in {call, estimateGas, getCode, getTransactionCount}
    THEN latestBlock ELSE UndefinedParam

\* The params of a request: absent (null or undefined), or a list.
NoParams == [given |-> FALSE, list |-> <<>>]
Given(list) == [given |-> TRUE, list |-> list]

\* The first parameters a method is meant for.
FirstParams(method) ==
  CASE method \in {call, estimateGas} -> TxObjects
    [] method \in {getCode, getTransactionCount} -> {AddressA}
    [] method = getTransactionReceipt -> OvmHashes
    [] method = sendRawTransaction -> RawTxs
    [] OTHER -> {}

\* The parameter lists a request for the method is made with: none, and
\* lists of every length up to one more than the method takes.
ParamsFor(method) ==
  {NoParams, Given(<<>>)}
    \cup {Given(<<p>>) : p \in FirstParams(method)}
    \cup (IF method \in SupportedMethods /\ Arity(method) = 2
            THEN {Given(<<p, t>>) : p \in FirstParams(method), t \in BlockTags}
                   \cup {Given(<<p, latestBlock, "extra">>) : p \in FirstParams(method)}
            ELSE {Given(<<p, "extra">>) : p \in FirstParams(method)})
    \cup (IF FirstParams(method) = {} THEN {Given(<<"extra">>)} ELSE {})

\* Faulty variant of the parameter check: a list is accepted only at its
\* full length, so the last parameter is never defaulted.
assertParametersExact(params, expected, defaultLast) ==
  IF ~params.given
    THEN IF expected = 0
           THEN [err |-> None, args |-> <<>>]
           ELSE [err |-> "InvalidParameters", args |-> <<>>]
    ELSE IF Len(params.list) = expected
           THEN [err |-> None, args |-> params.list]
           ELSE [err |-> "InvalidParameters", args |-> <<>>]

\* Lines 414-431
assertParameters(params, expected, defaultLast) ==
  IF ~params.given
    THEN IF expected = 0
           THEN [err |-> None, args |-> <<>>]
           ELSE [err |-> "InvalidParameters", args |-> <<>>]
    ELSE IF Len(params.list) = expected - 1 \/ Len(params.list) = expected
           THEN [err |-> None,
                 args |-> IF Len(params.list) = expected
                            THEN params.list
                            ELSE Append(params.list, defaultLast)]
           ELSE [err |-> "InvalidParameters", args |-> <<>>]

\* Faulty variant of the dispatch: a method without a case of its own is
\* passed on as it is.
DispatchPassingOn(method, params) ==
  IF method \in SupportedMethods
    THEN assertParameters(params, Arity(method), DefaultLast(method))
    ELSE [err |-> None, args |-> <<>>]

\* Lines 68-113: the case of the method, and in it the parameter check.
Dispatch(method, params) ==
  IF method \in SupportedMethods
    THEN assertParameters(params, Arity(method), DefaultLast(method))
    ELSE [err |-> "UnsupportedMethod", args |-> <<>>]

\* Faulty variant of the block tag check: every tag is let through.
AnyBlockTag(defaultBlock) == FALSE

\* Line 198
HistoricalLookup(defaultBlock) == defaultBlock # "latest"

\* The requests the methods hand to provider.send.
Request(method, params) == [method |-> method, params |-> params]

\* Lines 141-148
callRequest(txObject, defaultBlock) ==
  Request(call,
          <<[from |-> ZERO_ADDRESS, to |-> ExecutionManagerAddress,
             data |-> getExecutionMgrTxData(txObject.to, txObject.data)],
            defaultBlock>>)

\* Lines 174-180
estimateGasRequest(txObject) ==
  Request(estimateGas,
          <<[from |-> ZERO_ADDRESS, to |-> ExecutionManagerAddress,
             data |-> getExecutionMgrTxData(txObject.to, txObject.data)]>>)

\* Lines 207-210
getCodeRequest(codeContractAddress) ==
  Request(getCode, <<codeContractAddress, "latest">>)

\* Lines 229-232
getTransactionCountRequest(address, defaultBlock) ==
  Request(getTransactionCount, <<address, defaultBlock>>)

\* Lines 244-247
getTransactionReceiptRequest(internalTxHash) ==
  Request(getTransactionReceipt, <<internalTxHash>>)

\* The calls made on the execution manager contract.
SandboxCall(fn, arg) == [fn |-> fn, arg |-> arg]

\* The execution manager's table of code contracts: the code of the rollup
\* address AddressA is kept at CodeAddressA, any other address has none.
CodeAddressA == <<"0x">> \o Repeat("00", 19) \o <<"ca">>
getCodeContractAddress(address) ==
  IF address = AddressA THEN CodeAddressA ELSE ZERO_ADDRESS

\* The bridge's wallet and the address given to a created contract.
WalletAddress == <<"0x">> \o Repeat("00", 19) \o <<"bb">>
CreatedAddress == <<"0x">> \o Repeat("00", 19) \o <<"cc">>

\* The execution manager reads executeCall's arguments at fixed offsets:
\* four bytes of selector, the timestamp, the queue origin, and the
\* entrypoint in the last twenty bytes of the third word.
DecodedEntrypoint(calldata) == <<"0x">> \o SubSeq(remove0x(calldata), 81, 100)

\* The logs of an executed internal transaction: the execution manager
\* names the entrypoint it ran, the contract it created when the entrypoint
\* is the zero address, and passes the logs of the contract it called.
ExecutionLogs(calldata) ==
  LET entrypoint == DecodedEntrypoint(calldata)
  IN <<[event |-> "ActiveContract", address |-> entrypoint]>>
       \o (IF entrypoint = ZERO_ADDRESS
             THEN <<[event |-> "CreatedContract", address |-> CreatedAddress]>>
             ELSE <<[event |-> "Log", address |-> getCodeContractAddress(entrypoint)]>>)

\* The receipt the ledger keeps for an accepted internal transaction.
InternalReceipt(signed) ==
  [transactionHash |-> keccak256(signed),
   from |-> WalletAddress,
   to |-> SignedFields(signed).to,
   contractAddress |-> Null,
   blockNumber |-> SignedFields(signed).nonce,
   gasUsed |-> SignedFields(signed).gasLimit,
   status |-> 1,
   logs |-> ExecutionLogs(SignedFields(signed).data)]

RECURSIVE SelectLogs(_, _)
SelectLogs(logs, events) ==
  IF logs = <<>> THEN <<>>
  ELSE (IF Head(logs).event \in events THEN <<Head(logs)>> ELSE <<>>)
         \o SelectLogs(Tail(logs), events)

\* convertInternalLogsToOvmLogs: the log decoder.  It gives the logs of
\* the called contract, the entrypoint the execution manager named, and the
\* created contract's address when one was named.
convertInternalLogsToOvmLogs(logs) ==
  LET active == SelectLogs(logs, {"ActiveContract"})
      created == SelectLogs(logs, {"CreatedContract"})
  IN [ovmLogs |-> SelectLogs(logs, {"Log"}),
      ovmEntrypoint |-> IF active = <<>> THEN UndefinedParam ELSE active[1].address,
      ovmCreatedContractAddress |->
        IF created = <<>> THEN UndefinedParam ELSE created[1].address]

\* Faulty variant of the conversion: `from` is left as the ledger gave it.
internalTxReceiptToOvmTxReceiptKeepingFrom(internalTxReceipt) ==
  LET convertedOvmLogs == convertInternalLogsToOvmLogs(internalTxReceipt.logs)
  IN [internalTxReceipt EXCEPT
        !.logs = convertedOvmLogs.ovmLogs,
        !.to = convertedOvmLogs.ovmEntrypoint,
        !.contractAddress = convertedOvmLogs.ovmCreatedContractAddress]

\* Faulty variant of the conversion: a new receipt is built and, of the
\* ledger's fields, only the status is copied into it.
internalTxReceiptToOvmTxReceiptRebuilt(internalTxReceipt) ==
  LET convertedOvmLogs == convertInternalLogsToOvmLogs(internalTxReceipt.logs)
  IN [transactionHash |-> Null,
      from |-> ZERO_ADDRESS,
      to |-> convertedOvmLogs.ovmEntrypoint,
      contractAddress |-> convertedOvmLogs.ovmCreatedContractAddress,
      blockNumber |-> 0,
      gasUsed |-> 0,
      status |-> internalTxReceipt.status,
      logs |-> convertedOvmLogs.ovmLogs]

\* Lines 351-375
internalTxReceiptToOvmTxReceipt(internalTxReceipt) ==
  LET convertedOvmLogs == convertInternalLogsToOvmLogs(internalTxReceipt.logs)
  IN [internalTxReceipt EXCEPT
        !.logs = convertedOvmLogs.ovmLogs,
        !.to = convertedOvmLogs.ovmEntrypoint,
        !.from = ZERO_ADDRESS,
        !.contractAddress = convertedOvmLogs.ovmCreatedContractAddress]

\* What the ledger answers to a forwarded read.
LedgerAnswer == <<"0x", "answer">>

VARIABLES
  qpc,       \* the request: position in handleRequest and the method it runs
  qmethod,   \* the request: method
  qparams,   \* the request: params
  qargs,     \* the request: args, the checked and completed parameters
  qbody,     \* the request: the method's body was entered
  qtmp,      \* the request: the value the method awaited last
  qres,      \* the request: response
  qerr,      \* the request: the error thrown, None if none
  qsent,     \* the request: what it handed to provider.send, in order
  qsandbox,  \* the request: the calls it made on the execution manager
  qslot,     \* the request: the sendRawTransaction call it runs, 0 if none
  qdone      \* the request: the calls that had returned when it came in

qvars == <<qpc, qmethod, qparams, qargs, qbody, qtmp, qres, qerr, qsent,
           qsandbox, qslot, qdone>>

QueryInit ==
  /\ qpc = "idle"
  /\ qmethod = None
  /\ qparams = NoParams
  /\ qargs = <<>>
  /\ qbody = FALSE
  /\ qtmp = NoHex
  /\ qres = NoHex
  /\ qerr = None
  /\ qsent = <<>>
  /\ qsandbox = <<>>
  /\ qslot = 0
  /\ qdone = {}

QThrow(e) ==
  /\ qpc' = "failed"
  /\ qerr' = e

\* Lines 62-119, with the part of the method's body up to its first await.
\* b is the sendRawTransaction call the request runs when that is its method.
HandleRequest(method, params, b) ==
  /\ qpc = "idle"
  /\ qmethod' = method
  /\ qparams' = params
  /\ qdone' = {c \in BCalls : bpc[c] = "done"}
  /\ LET checked == Dispatch(method, params)
         args == checked.args
     IN /\ qargs' = args
        /\ qbody' = (checked.err = None)
        /\ IF checked.err # None
             THEN /\ QThrow(checked.err)
                  /\ UNCHANGED <<qtmp, qres, qsent, qsandbox, qslot, bvars>>
             ELSE
               CASE method = call ->
                      /\ qsent' = <<callRequest(args[1], args[2])>>
                      /\ qpc' = "ledger"
                      /\ UNCHANGED <<qtmp, qres, qerr, qsandbox, qslot, bvars>>
                 [] method = estimateGas ->
                      /\ qsent' = <<estimateGasRequest(args[1])>>
                      /\ qpc' = "ledger"
                      /\ UNCHANGED <<qtmp, qres, qerr, qsandbox, qslot, bvars>>
                 [] method = gasPrice ->
                      /\ qres' = <<"0x", "0">>
                      /\ qpc' = "done"
                      /\ UNCHANGED <<qtmp, qerr, qsent, qsandbox, qslot, bvars>>
                 [] method = getCode ->
                      IF HistoricalLookup(args[2])
                        THEN /\ QThrow("UnsupportedBlockTag")
                             /\ UNCHANGED <<qtmp, qres, qsent, qsandbox, qslot, bvars>>
                        ELSE /\ qsandbox' = <<SandboxCall("getCodeContractAddress", args[1])>>
                             /\ qpc' = "getCode"
                             /\ UNCHANGED <<qtmp, qres, qerr, qsent, qslot, bvars>>
                 [] method = getExecutionManagerAddress ->
                      /\ qres' = ExecutionManagerAddress
                      /\ qpc' = "done"
                      /\ UNCHANGED <<qtmp, qerr, qsent, qsandbox, qslot, bvars>>
                 [] method = getTransactionCount ->
                      /\ qsent' = <<getTransactionCountRequest(args[1], args[2])>>
                      /\ qpc' = "ledger"
                      /\ UNCHANGED <<qtmp, qres, qerr, qsandbox, qslot, bvars>>
                 [] method = getTransactionReceipt ->
                      IF args[1] = UndefinedParam
                        THEN \* the contract call cannot encode undefined
                             /\ QThrow("ArgumentError")
                             /\ UNCHANGED <<qtmp, qres, qsent, qsandbox, qslot, bvars>>
                        ELSE /\ qsandbox' = <<SandboxCall("getInternalTransactionHash",
                                                          add0x(args[1]))>>
                             /\ qpc' = "getTransactionReceipt"
                             /\ UNCHANGED <<qtmp, qres, qerr, qsent, qslot, bvars>>
                 [] method = sendRawTransaction ->
                      IF args[1] = UndefinedParam
                        THEN \* utils.parseTransaction cannot parse undefined
                             /\ QThrow("ArgumentError")
                             /\ UNCHANGED <<qtmp, qres, qsent, qsandbox, qslot, bvars>>
                        ELSE /\ SendBegin(b, args[1])
                             /\ qslot' = b
                             /\ qpc' = "sendRawTransaction"
                             /\ UNCHANGED <<qtmp, qres, qerr, qsent, qsandbox>>
                 [] OTHER ->
                      \* blockNumber and networkVersion: provider.send(method, [])
                      /\ qsent' = <<Request(method, <<>>)>>
                      /\ qpc' = "ledger"
                      /\ UNCHANGED <<qtmp, qres, qerr, qsandbox, qslot, bvars>>

\* Faulty variant of the ledger's answer to a forwarded read: the gas is
\* estimated by sending from the wallet.
QLedgerAnsweredBySending ==
  /\ qpc = "ledger"
  /\ qres' = LedgerAnswer
  /\ qpc' = "done"
  /\ walletCount' = IF qmethod = estimateGas THEN walletCount + 1 ELSE walletCount
  /\ UNCHANGED <<qmethod, qparams, qargs, qbody, qdone, qtmp, qerr, qsent, qsandbox, qslot>>
  /\ UNCHANGED <<hashMap, ledgerTxs, bpc, braw, bnonce, binternal, bovmHash,
                 bintHash, breturned, bres, berr, bmaps, bsubs, bmapNonce,
                 bsubCount>>

\* Lines 123-127, 141-156, 174-186, 207-215, 229-236, 260-263: the ledger
\* answers the forwarded read and the answer is the response.
QLedgerAnswered ==
  /\ qpc = "ledger"
  /\ qres' = LedgerAnswer
  /\ qpc' = "done"
  /\ UNCHANGED <<qmethod, qparams, qargs, qbody, qdone, qtmp, qerr, qsent, qsandbox, qslot>>
  /\ UNCHANGED bvars

\* A call on the ledger or on the execution manager fails and the error
\* leaves the method.
QCallFailed ==
  /\ qpc \in {"ledger", "getCode", "getTransactionReceipt", "receipt"}
  /\ QThrow("UnderlyingLedgerError")
  /\ UNCHANGED <<qmethod, qparams, qargs, qbody, qdone, qtmp, qres, qsent, qsandbox, qslot>>
  /\ UNCHANGED bvars

\* Lines 204-210: the code contract address arrives and the code at that
\* address is asked for.
QCodeResolved ==
  /\ qpc = "getCode"
  /\ LET codeContractAddress == getCodeContractAddress(qargs[1])
     IN /\ qtmp' = codeContractAddress
        /\ qsent' = Append(qsent, getCodeRequest(codeContractAddress))
  /\ qpc' = "ledger"
  /\ UNCHANGED <<qmethod, qparams, qargs, qbody, qdone, qres, qerr, qsandbox, qslot>>
  /\ UNCHANGED bvars

\* Lines 242-247 and 311-313: the internal hash stored for the ovmTxHash
\* arrives and the receipt of that hash is asked for.
QReceiptResolved ==
  /\ qpc = "getTransactionReceipt"
  /\ LET internalTxHash == getInternalTransactionHash(hashMap, add0x(qargs[1]))
     IN /\ qtmp' = internalTxHash
        /\ qsent' = Append(qsent, getTransactionReceiptRequest(internalTxHash))
  /\ qpc' = "receipt"
  /\ UNCHANGED <<qmethod, qparams, qargs, qbody, qdone, qres, qerr, qsandbox, qslot>>
  /\ UNCHANGED bvars

\* Faulty variant of the receipt's arrival: null is answered as it came.
QReceiptFetchedNullPassed ==
  /\ qpc = "receipt"
  /\ LET found == {t \in ledgerTxs : keccak256(t) = qtmp}
     IN qres' = IF found = {}
                  THEN Null
                  ELSE internalTxReceiptToOvmTxReceipt(
                         InternalReceipt(CHOOSE t \in found : TRUE))
  /\ qpc' = "done"
  /\ UNCHANGED <<qmethod, qparams, qargs, qbody, qdone, qtmp, qerr, qsent, qsandbox, qslot>>
  /\ UNCHANGED bvars

\* Lines 244-255: the ledger answers with the receipt of the transaction
\* of that hash, null when it has none, and the receipt is converted;
\* reading the logs of null throws.
QReceiptFetched ==
  /\ qpc = "receipt"
  /\ LET found == {t \in ledgerTxs : keccak256(t) = qtmp}
     IN IF found = {}
          THEN /\ QThrow("TypeError")
               /\ UNCHANGED qres
          ELSE /\ qres' = internalTxReceiptToOvmTxReceipt(
                            InternalReceipt(CHOOSE t \in found : TRUE))
               /\ qpc' = "done"
               /\ UNCHANGED qerr
  /\ UNCHANGED <<qmethod, qparams, qargs, qbody, qdone, qtmp, qsent, qsandbox, qslot>>
  /\ UNCHANGED bvars

\* Lines 106-107 and 115-118: the sendRawTransaction call of the request
\* has ended; its result or its error is the request's.
HandleSendReturn ==
  /\ qpc = "sendRawTransaction"
  /\ bpc[qslot] \in {"done", "failed"}
  /\ qpc' = bpc[qslot]
  /\ qres' = bres[qslot]
  /\ qerr' = berr[qslot]
  /\ UNCHANGED <<qmethod, qparams, qargs, qbody, qdone, qtmp, qsent, qsandbox, qslot>>
  /\ UNCHANGED bvars

(***************************************************************************)
(* getExecutionMgrTxData applied to inputs of its own                      *)
(***************************************************************************)
MaxData == 2
Bytes == {"00", "aa"}
AddressB == <<"0x", "aa">> \o Repeat("00", 19)

\* An entrypoint is twenty bytes and a calldata any bytes, each written
\* with or without the "0x" prefix.
Entrypoints ==
  LET prefixed == {ZERO_ADDRESS, AddressA, AddressB}
  IN prefixed \cup {remove0x(a) : a \in prefixed}

Calldatas ==
  LET bytes == UNION {[1..n -> Bytes] : n \in 0..MaxData}
  IN bytes \cup {<<"0x">> \o d : d \in bytes}

PSlots == {1, 2}

VARIABLES
  pin,   \* per application: the arguments ovmEntrypoint and ovmCalldata
  pout   \* per application: the packed calldata returned, NoHex before

pvars == <<pin, pout>>

vars == <<evars, bvars, qvars, pvars>>

\* No application of getExecutionMgrTxData on its own.
PackIdle ==
  /\ pin = [i \in PSlots |-> [ovmEntrypoint |-> ZERO_ADDRESS, ovmCalldata |-> <<>>]]
  /\ pout = [i \in PSlots |-> NoHex]

PackInit ==
  /\ pin \in [PSlots -> [ovmEntrypoint : Entrypoints, ovmCalldata : Calldatas]]
  /\ pout = [i \in PSlots |-> NoHex]

\* Lines 380-393 applied to the arguments of application i.
Pack(i) ==
  /\ pout[i] = NoHex
  /\ pout' = [pout EXCEPT ![i] = getExecutionMgrTxData(pin[i].ovmEntrypoint,
                                                       pin[i].ovmCalldata)]
  /\ UNCHANGED pin

(***************************************************************************)
(* Specifications                                                          *)
(***************************************************************************)
Init == EngineInit /\ BridgeInit /\ QueryInit /\ PackIdle

\* One executeTransaction call, with every transaction, store content and
\* predicate outcome of the bounds.
EngineNext ==
  /\ \/ \E tx \in Transactions : ExecBegin(1, tx)
     \/ ExecQuery(1)
     \/ ExecLoop(1)
     \/ ExecGetPlugin(1)
     \/ \E o \in StateUpdateObjects : ExecTransition(1, o)
  /\ UNCHANGED <<bvars, qvars, pvars>>

EngineSpec == Init /\ [][EngineNext]_vars

\* Concurrent executeTransaction calls on one engine, over a smaller choice
\* of inputs.
ConcTransactions ==
  {[range |-> [start |-> 0, end |-> MaxCoord], predicate |-> "p1"],
   [range |-> [start |-> 0, end |-> 1], predicate |-> "p1"],
   [range |-> [start |-> 1, end |-> 0], predicate |-> "p1"]}

ConcStores ==
  {s \in StoreContents :
     \A i \in 1..Len(s) : s[i].verifiedBlockNumber = 0 /\ s[i].range.end > 0}

ConcObjects == {o \in StateUpdateObjects : o.plasmaBlockNumber > 0 /\ o.data = "A"}

EngineConcInit == Init /\ stateDB \in ConcStores

EngineConcNext ==
  /\ \E c \in ECalls :
       \/ \E tx \in ConcTransactions : ExecBegin(c, tx)
       \/ ExecQuery(c)
       \/ ExecLoop(c)
       \/ ExecGetPlugin(c)
       \/ \E o \in ConcObjects : ExecTransition(c, o)
  /\ UNCHANGED <<bvars, qvars, pvars>>

EngineConcSpec == EngineConcInit /\ [][EngineConcNext]_vars

\* Calls of the two unimplemented methods, with any argument, before,
\* while and after an executeTransaction call runs on the same engine.
EngineExtNext ==
  /\ \/ \E tx \in ConcTransactions : ExecBegin(1, tx)
     \/ ExecQuery(1)
     \/ ExecLoop(1)
     \/ ExecGetPlugin(1)
     \/ \E o \in ConcObjects : ExecTransition(1, o)
     \/ \E c \in ECalls : \E p \in HistoryProofs : IngestHistoryProof(c, p)
     \/ \E c \in ECalls : \E q \in StateQueries : QueryState(c, q)
  /\ UNCHANGED <<bvars, qvars, pvars>>

EngineExtSpec == EngineConcInit /\ [][EngineExtNext]_vars

\* Concurrent sendRawTransaction calls on one bridge.
BridgeNext ==
  /\ \E b \in BCalls :
       \/ \E raw \in RawTxs : SendBegin(b, raw)
       \/ SendSign(b)
       \/ SendMapped(b)
       \/ \E mined \in BOOLEAN : SendMapFailed(b, mined)
       \/ \E h \in AllReportedHashes : SendAccepted(b, h)
       \/ \E reason \in {"nonce", "other"} : SendRejected(b, reason)
  /\ UNCHANGED <<evars, qvars, pvars>>

BridgeInitOnly == Init /\ stateDB = <<>>

BridgeSpec == BridgeInitOnly /\ [][BridgeNext]_vars

\* sendRawTransaction calls made one after the other: a call starts only
\* when no other call is under way.
NoCallUnderWay == \A b \in BCalls : bpc[b] \in {"idle", "done", "failed"}

BridgeSeqNext ==
  /\ \E b \in BCalls :
       \/ \E raw \in RawTxs : NoCallUnderWay /\ SendBegin(b, raw)
       \/ SendSign(b)
       \/ SendMapped(b)
       \/ \E mined \in BOOLEAN : SendMapFailed(b, mined)
       \/ \E h \in AllReportedHashes : SendAccepted(b, h)
       \/ \E reason \in {"nonce", "other"} : SendRejected(b, reason)
  /\ UNCHANGED <<evars, qvars, pvars>>

BridgeSeqSpec == BridgeInitOnly /\ [][BridgeSeqNext]_vars

\* Requests to one bridge: sendRawTransaction calls made one after the
\* other, and one request of any method and any parameters handled by
\* handleRequest while they run.
SendSlots == {1, 2}

HandlerNext ==
  /\ \/ \E b \in SendSlots :
          \/ \E raw \in RawTxs : NoCallUnderWay /\ SendBegin(b, raw) /\ UNCHANGED qvars
          \/ SendSign(b) /\ UNCHANGED qvars
          \/ SendMapped(b) /\ UNCHANGED qvars
          \/ \E mined \in BOOLEAN : SendMapFailed(b, mined) /\ UNCHANGED qvars
          \/ \E h \in AllReportedHashes : SendAccepted(b, h) /\ UNCHANGED qvars
          \/ \E reason \in {"nonce", "other"} : SendRejected(b, reason) /\ UNCHANGED qvars
     \/ \E method \in Methods : \E params \in ParamsFor(method) : \E b \in SendSlots :
          /\ method = sendRawTransaction => NoCallUnderWay
          /\ HandleRequest(method, params, b)
     \/ QLedgerAnswered
     \/ QCallFailed
     \/ QCodeResolved
     \/ QReceiptResolved
     \/ QReceiptFetched
     \/ HandleSendReturn
  /\ UNCHANGED <<evars, pvars>>

HandlerSpec == BridgeInitOnly /\ [][HandlerNext]_vars

\* getExecutionMgrTxData applied to every pair of arguments of the bounds.
PackNext ==
  /\ \E i \in PSlots : Pack(i)
  /\ UNCHANGED <<evars, bvars, qvars>>

PackInitOnly == EngineInit /\ stateDB = <<>> /\ BridgeInit /\ QueryInit /\ PackInit

PackSpec == PackInitOnly /\ [][PackNext]_vars

(***************************************************************************)
(* Properties of executeTransaction                                        *)
(***************************************************************************)
\* Two half-open ranges share no coordinate.
Disjoint(r1, r2) == r1.end <= r2.start \/ r2.end <= r1.start
Contains(outer, inner) == outer.start <= inner.start /\ inner.end <= outer.end
WellFormedRange(r) == r.start < r.end
WellFormedTx(tx) == WellFormedRange(tx.range) /\ tx.predicate # NoPredicate
Finished(c) == epc[c] \in {"done", "failed"}
\* The update of index k got the block number it must get.
RightBlock(c, k) ==
  eyield[c][k].plasmaBlockNumber = eups[c][k].verifiedBlockNumber + 1

\* C1: whenever executeTransaction succeeds, every returned valid range is
\* non-empty and contained in the transaction's range, and any two returned
\* valid ranges are disjoint.
C1_ValidRangesDisjoint ==
  \A c \in ECalls :
    epc[c] = "done" =>
      LET vr == eres[c].validRanges
      IN /\ \A i \in 1..Len(vr) :
              WellFormedRange(vr[i]) /\ Contains(etx[c].range, vr[i])
         /\ \A i, j \in 1..Len(vr) : i # j => Disjoint(vr[i], vr[j])

\* C2 as stated: a verified update that does not overlap the transaction's
\* range makes the call fail with the range-mismatch error (stated here for
\* the well-formed updates among them, which is all the refutation needs).
C2_AlwaysRangeMismatch ==
  \A c \in ECalls :
    (Finished(c) /\ \E i \in 1..Len(eups[c]) :
                      /\ WellFormedRange(eups[c][i].range)
                      /\ Disjoint(etx[c].range, eups[c][i].range))
      => (epc[c] = "failed" /\ eerr[c] = "RangeMismatch")

\* C2 as amended: a verified update that does not overlap the transaction's
\* range is never passed over and no result is returned; no predicate is
\* resolved or invoked for it; and when the call fails at that update and the
\* update is well-formed, the error is the range-mismatch error.
C2_NonOverlapNeverSkipped ==
  \A c \in ECalls :
    \A i \in 1..Len(eups[c]) :
      Disjoint(etx[c].range, eups[c][i].range) =>
        /\ epc[c] # "done"
        /\ eidx[c] <= i
        /\ Len(eyield[c]) < i
        /\ (eidx[c] = i => epc[c] \in {"loop", "failed"})
        /\ (epc[c] = "failed" /\ eidx[c] = i /\ WellFormedRange(eups[c][i].range))
             => eerr[c] = "RangeMismatch"

\* The call failed with the range-mismatch error at its second update, after
\* the first one went through every check.
C2_Witness ==
  \E c \in ECalls :
    /\ eerr[c] = "RangeMismatch"
    /\ eidx[c] = 2
    /\ Len(eres[c].validRanges) = 1

\* C3: when two verified updates yield candidates that differ in value, each
\* with the block number it must have, the call has failed with the
\* inconsistent-transition error.
C3_DifferentValuesFail ==
  \A c \in ECalls :
    \A i, j \in 1..Len(eyield[c]) :
      (i < j /\ ~SameValue(eyield[c][i], eyield[c][j]) /\ RightBlock(c, i) /\ RightBlock(c, j))
        => (epc[c] = "failed" /\ eerr[c] = "InconsistentTransition")

C3_Witness ==
  \E c \in ECalls :
    /\ eerr[c] = "InconsistentTransition"
    /\ Len(eyield[c]) = 2
    /\ eyield[c][1].data # eyield[c][2].data
    /\ RightBlock(c, 1) /\ RightBlock(c, 2)

\* C4: consistency is judged by value, so the call fails with the
\* inconsistent-transition error only if two of the candidates the predicates
\* returned differ in some field.
C4_ConsistencyByValue ==
  \A c \in ECalls :
    eerr[c] = "InconsistentTransition" =>
      \E i, j \in 1..Len(eyield[c]) : ~SameValue(eyield[c][i], eyield[c][j])

\* C5: a candidate whose block number is not verifiedBlockNumber + 1 of its
\* update makes the call fail with the block-number-mismatch error, and a
\* returned stateUpdate has block number verifiedBlockNumber + 1 of every
\* update of the call.
C5_BlockNumberPlusOne ==
  \A c \in ECalls :
    /\ \A k \in 1..Len(eyield[c]) :
         ~RightBlock(c, k) => (epc[c] = "failed" /\ eerr[c] = "BlockNumberMismatch")
    /\ (epc[c] = "done" /\ Len(eups[c]) > 0) =>
         \A k \in 1..Len(eups[c]) :
           eres[c].stateUpdate.plasmaBlockNumber = eups[c][k].verifiedBlockNumber + 1

\* The call failed on a candidate whose block number is too high, after a
\* first update whose candidate was accepted.
C5_Witness ==
  \E c \in ECalls :
    /\ eerr[c] = "BlockNumberMismatch"
    /\ Len(eyield[c]) = 2
    /\ eyield[c][2].plasmaBlockNumber > eups[c][2].verifiedBlockNumber + 1

\* C6: a transaction that is not well-formed makes the call fail with the
\* invalid-transaction error, with no store query, no predicate resolved and
\* no predicate invoked.
C6_InvalidTransactionFirst ==
  \A c \in ECalls :
    (epc[c] # "idle" /\ ~WellFormedTx(etx[c])) =>
      /\ epc[c] = "failed"
      /\ eerr[c] = "InvalidTransaction"
      /\ ereads[c] = 0
      /\ egets[c] = 0
      /\ eyield[c] = <<>>

\* The call failed on a transaction with an empty range while the store had
\* verified updates to give.
C6_Witness ==
  \E c \in ECalls :
    /\ eerr[c] = "InvalidTransaction"
    /\ etx[c].range.start >= etx[c].range.end
    /\ etx[c].predicate # NoPredicate
    /\ Len(stateDB) > 0

\* C7: no step of any executeTransaction call, alone or interleaved with
\* another call, changes the state store, the predicate registry or the
\* engine's fields, and a call reads the store once: never before its
\* transaction was validated, exactly once from then on.
C7_NoWrites ==
  [][/\ stateDB' = stateDB
     /\ pluginManager' = pluginManager
     /\ engine' = engine
     /\ \A c \in ECalls :
          ereads'[c] = IF epc'[c] \in {"idle", "query"} \/ eerr'[c] = "InvalidTransaction"
                         THEN 0 ELSE 1]_vars

\* Two calls are under way at the same time, one of them past its store
\* query and the other one finished.
C7_Witness ==
  /\ epc[1] = "transition" /\ ereads[1] = 1
  /\ epc[2] = "done" /\ Len(eres[2].validRanges) > 0

(***************************************************************************)
(* Properties of sendRawTransaction                                        *)
(***************************************************************************)
\* The call has read the wallet's count and signed, and has not finished.
InSection(b) == bpc[b] \in {"map", "submit"}

\* C8: a call issues at most one mapping write and at most one submission;
\* it submits only after its mapping write was mined; and a call whose
\* mapping write failed has failed without submitting.
C8_MappingBeforeSubmission ==
  \A b \in BCalls :
    /\ bmaps[b] <= 1
    /\ bsubs[b] <= 1
    /\ bsubs[b] = 1 =>
         /\ bmaps[b] = 1
         /\ bmapNonce[b] >= 0
         /\ hashMap[bovmHash[b]] # NoHex
    /\ bsubCount[b] >= 0 => (bsubs[b] = 1 /\ bmapNonce[b] < bsubCount[b])
    /\ berr[b] = "MappingPersistError" =>
         (bpc[b] = "failed" /\ bsubs[b] = 0 /\ bsubCount[b] < 0 /\ bres[b] = NoHex)

\* One call's mapping write failed and another call went through.
C8_Witness ==
  \E a, b \in BCalls :
    /\ berr[a] = "MappingPersistError"
    /\ bpc[b] = "done"
    /\ binternal[b] \in ledgerTxs

\* C9: two calls are never both between reading the wallet's count and
\* their end with the same nonce signed.
C9_NoSharedNonce ==
  \A a, b \in BCalls :
    (a # b /\ InSection(a) /\ InSection(b)) => bnonce[a] # bnonce[b]

\* C10: in a sequential run, a call that succeeded had its mapping write
\* mined with the count n it read and its internal transaction, signed with
\* n + 1, accepted as the wallet's next transaction, and no submission is
\* refused for its nonce.
C10_TwoConsecutiveNonces ==
  \A b \in BCalls :
    /\ berr[b] # "NonceRejected"
    /\ bpc[b] = "done" =>
         /\ bmapNonce[b] = bnonce[b] - 1
         /\ SignedFields(binternal[b]).nonce = bmapNonce[b] + 1
         /\ bsubCount[b] = bmapNonce[b] + 1
         /\ walletCount >= bmapNonce[b] + 2

\* Two calls succeeded one after the other, the second two nonces later.
C10_Witness ==
  \E a, b \in BCalls :
    /\ bpc[a] = "done" /\ bpc[b] = "done"
    /\ bmapNonce[b] = bmapNonce[a] + 2

\* The call wrote its mapping: its mapping transaction was mined.
Mapped(b) == bmapNonce[b] >= 0

\* C11: a call that failed on the hash comparison has returned nothing and
\* the store holds no mapping of its ovmTxHash to its internalTxHash.
C11_NoMappingAfterMismatch ==
  \A b \in BCalls :
    berr[b] = "HashMismatch" =>
      /\ bpc[b] = "failed"
      /\ bres[b] = NoHex
      /\ hashMap[bovmHash[b]] # bintHash[b]

\* C12: an ovmTxHash is mapped by one call only, and the store gives for it
\* the internalTxHash that call computed.
C12_MappingWrittenOnce ==
  \A a \in BCalls :
    Mapped(a) =>
      /\ \A c \in BCalls : (c # a /\ Mapped(c)) => bovmHash[c] # bovmHash[a]
      /\ hashMap[bovmHash[a]] = bintHash[a]

\* C13: a call that returned gave the hash of the raw rollup transaction,
\* which is neither the internal hash nor the hash the ledger reported, and
\* the ledger's reported hash is the locally computed internal hash (the
\* comparison leaves a "0x" prefix out of account).
C13_ReturnsOvmTxHash ==
  \A b \in BCalls :
    bpc[b] = "done" =>
      /\ bres[b] = keccak256(braw[b])
      /\ bres[b] # bintHash[b]
      /\ bres[b] # breturned[b]
      /\ bintHash[b] = keccak256(binternal[b])
      /\ remove0x(breturned[b]) = remove0x(bintHash[b])
      /\ berr[b] = None

\* A call returned after the ledger reported the hash without its prefix.
C13_Witness ==
  \E b \in BCalls :
    /\ bpc[b] = "done"
    /\ bres[b] = bovmHash[b]
    /\ breturned[b] = remove0x(bintHash[b])

\* The submission of the call failed after its mapping write.
SubmissionFailed(b) == berr[b] \in {"NonceRejected", "UnderlyingLedgerError"}

\* C20: a call whose submission failed after its mapping write has failed
\* with that error and returned nothing, has submitted once, and has left
\* its mapping in the store; and whatever the store holds, a call that
\* waits for its mapping write can have it written, and a call whose nonce
\* is the wallet's count can have its submission accepted.
C20_OrphanMapping ==
  \A b \in BCalls :
    /\ bsubs[b] <= 1
    /\ SubmissionFailed(b) =>
         /\ bpc[b] = "failed"
         /\ bres[b] = NoHex
         /\ bmaps[b] = 1 /\ bsubs[b] = 1
         /\ Mapped(b)
         /\ bsubCount[b] < 0
         /\ hashMap[bovmHash[b]] # NoHex
    /\ bpc[b] = "map" => ENABLED SendMapped(b)
    /\ (bpc[b] = "submit" /\ bnonce[b] = walletCount) =>
         ENABLED SendAccepted(b, bintHash[b])

\* A submission failed for a reason of the ledger's, and a later call with
\* the same raw transaction, mapped over the orphan, succeeded.
C20_Witness ==
  \E a, c \in BCalls :
    /\ berr[a] = "UnderlyingLedgerError"
    /\ bpc[c] = "done"
    /\ braw[c] = braw[a]
    /\ bmapNonce[c] > bmapNonce[a]
    /\ hashMap[bovmHash[a]] = bintHash[c]

(***************************************************************************)
(* Properties of handleRequest and the read methods                        *)
(***************************************************************************)
\* The request has been taken up by handleRequest.
Handled == qpc # "idle"

\* The entrypoint of the rollup transaction a raw transaction carries.
EntrypointOf(raw) == IF raw[3].to = Null THEN ZERO_ADDRESS ELSE raw[3].to

\* C14: a getTransactionReceipt request for the ovmTxHash of a call that
\* had returned when the request came in, ended without a failure of the
\* ledger, has asked the store for that hash and the ledger for the receipt
\* of the call's internal hash, and has answered with a receipt whose `to`
\* is the call's entrypoint and not the execution manager.
C14_ReceiptOfSubmitted ==
  (/\ qmethod = getTransactionReceipt
   /\ qbody
   /\ qpc \in {"done", "failed"}
   /\ qerr # "UnderlyingLedgerError") =>
    \A b \in qdone :
      bovmHash[b] = add0x(qargs[1]) =>
        /\ qpc = "done"
        /\ qsandbox = <<[fn |-> "getInternalTransactionHash", arg |-> bovmHash[b]]>>
        /\ qsent = <<[method |-> getTransactionReceipt, params |-> <<bintHash[b]>>]>>
        /\ qres.to = EntrypointOf(braw[b])
        /\ qres.to # ExecutionManagerAddress

\* The length of the request's parameter list differs from what its method
\* takes, leaving aside the one case with a default: a list without the
\* block tag, for a method that takes an address or object and a block tag.
WrongArity ==
  /\ qmethod \in SupportedMethods
  /\ IF qparams.given
       THEN /\ Len(qparams.list) # Arity(qmethod)
            /\ ~(Arity(qmethod) = 2 /\ Len(qparams.list) = 1)
       ELSE Arity(qmethod) # 0

\* C15: a request for a supported method whose parameter list has the wrong
\* length has failed with InvalidParameters, without entering the method,
\* calling the ledger or the execution manager, or starting a submission.
C15_ArityChecked ==
  (Handled /\ WrongArity) =>
    /\ qpc = "failed"
    /\ qerr = "InvalidParameters"
    /\ ~qbody
    /\ qsent = <<>>
    /\ qsandbox = <<>>
    /\ qslot = 0

\* C16: a request for a method outside the supported set has failed with
\* UnsupportedMethod, whatever its parameters, without entering a method,
\* calling the ledger or the execution manager or starting a submission;
\* taking it up changes nothing of the bridge's calls, wallet, store and
\* ledger; and a sendRawTransaction call can start after it as before.
C16_UnsupportedMethod ==
  /\ [](/\ (Handled /\ qmethod \notin SupportedMethods) =>
             /\ qpc = "failed"
             /\ qerr = "UnsupportedMethod"
             /\ ~qbody
             /\ qsent = <<>>
             /\ qsandbox = <<>>
             /\ qslot = 0
             /\ \A b \in SendSlots : \A raw \in RawTxs :
                  bpc[b] = "idle" => ENABLED SendBegin(b, raw)
        /\ qerr = "UnsupportedMethod" => qmethod \notin SupportedMethods)
  /\ [][(qmethod' \notin SupportedMethods /\ qvars' # qvars) => UNCHANGED bvars]_vars

\* A request for an unsupported method, with a parameter, has failed and a
\* sendRawTransaction call has gone through since.
C16_Witness ==
  /\ qerr = "UnsupportedMethod"
  /\ qparams.given /\ Len(qparams.list) = 1
  /\ \E b \in SendSlots : bpc[b] = "done" /\ b \notin qdone

\* C18: a getCode request whose block tag is not "latest" has failed with
\* the unsupported-block-tag error without a call on the execution manager
\* or the ledger; one whose tag is "latest" asks the execution manager for
\* the code contract address of the rollup address before anything else,
\* and asks the ledger only for the code at that address, at "latest".
C18_GetCodeLatestOnly ==
  (qmethod = getCode /\ qbody) =>
    /\ qargs[2] # "latest" =>
         /\ qpc = "failed"
         /\ qerr = "UnsupportedBlockTag"
         /\ qsent = <<>>
         /\ qsandbox = <<>>
    /\ qargs[2] = "latest" =>
         /\ qerr # "UnsupportedBlockTag"
         /\ qsandbox = <<[fn |-> "getCodeContractAddress", arg |-> qargs[1]]>>
         /\ qsent # <<>> =>
              /\ qsent = <<[method |-> getCode, params |-> <<qtmp, "latest">>]>>
              /\ qargs[1] = AddressA => qtmp = CodeAddressA
              /\ qtmp # qargs[1]
         /\ qpc = "done" => qsent # <<>>

\* A getCode request for another block tag failed while a submission was
\* under way.
C18_Witness ==
  /\ qmethod = getCode
  /\ qerr = "UnsupportedBlockTag"
  /\ qargs = <<AddressA, "earliest">>
  /\ \E b \in SendSlots : bpc[b] = "submit"

\* C19: no step of a call or estimateGas request changes the wallet's
\* count, the store, the ledger's transactions or any sendRawTransaction
\* call; such a request forwards one read of its own method to the ledger,
\* calls nothing on the execution manager and starts no submission.
C19_ReadOnly ==
  /\ [](qmethod \in {call, estimateGas} =>
          /\ qslot = 0
          /\ qsandbox = <<>>
          /\ Len(qsent) <= 1
          /\ \A i \in 1..Len(qsent) : qsent[i].method = qmethod)
  /\ [][(qmethod' \in {call, estimateGas} /\ qvars' # qvars) =>
          UNCHANGED <<walletCount, hashMap, ledgerTxs, bpc, bnonce, bmaps, bsubs>>]_vars

\* An estimateGas request was answered between the mapping write and the
\* submission of a sendRawTransaction call.
C19_Witness ==
  /\ qmethod = estimateGas
  /\ qpc = "done"
  /\ \E b \in SendSlots : bpc[b] = "submit" /\ b \notin qdone

(***************************************************************************)
(* Properties of getExecutionMgrTxData                                     *)
(***************************************************************************)
Packed(i) == pout[i] # NoHex
EntrypointBytes(i) == remove0x(pin[i].ovmEntrypoint)
CalldataBytes(i) == remove0x(pin[i].ovmCalldata)

\* C17: the packed calldata is "0x", the four bytes of the selector, a
\* word for the timestamp and a word for the queue origin (both zero, as
\* the bridge sets them), twelve zero bytes and the twenty bytes of the
\* entrypoint, and the bytes of the calldata: reading at these offsets
\* gives the arguments back, and applications whose arguments differ in a
\* byte give different packed calldata.
C17_PackedLayout ==
  /\ \A i \in PSlots :
       Packed(i) =>
         LET body == Tail(pout[i])
         IN /\ pout[i][1] = "0x"
            /\ Len(body) = 4 + 32 + 32 + 32 + Len(CalldataBytes(i))
            /\ SubSeq(body, 1, 4) = MethodIdExecuteCall
            /\ \A k \in 5..80 : body[k] = "00"
            /\ SubSeq(body, 81, 100) = EntrypointBytes(i)
            /\ SubSeq(body, 101, Len(body)) = CalldataBytes(i)
  /\ \A i, j \in PSlots :
       (/\ Packed(i) /\ Packed(j)
        /\ \/ EntrypointBytes(i) # EntrypointBytes(j)
           \/ CalldataBytes(i) # CalldataBytes(j)) => pout[i] # pout[j]

\* Two applications, one with a prefixed and one with an unprefixed
\* entrypoint, on calldata of the greatest length that starts with a zero
\* byte.
C17_Witness ==
  /\ Packed(1) /\ Packed(2)
  /\ pin[1].ovmEntrypoint = AddressA
  /\ pin[2].ovmEntrypoint = remove0x(AddressB)
  /\ Len(CalldataBytes(1)) = MaxData /\ CalldataBytes(1)[1] = "00"
  /\ pin[2].ovmCalldata = <<"0x">>
  /\ pout[1] # pout[2]

(***************************************************************************)
(* Further properties of the state manager                                 *)
(***************************************************************************)
MaxOf(a, b) == IF a >= b THEN a ELSE b
MinOf(a, b) == IF a <= b THEN a ELSE b
Registered(u) == u.predicate \in pluginManager
Overlaps(tx, u) == ~Disjoint(tx.range, u.range)

\* C21: a call that succeeded returns one valid range per verified update
\* of the store's answer, in the answer's order, the i-th being
\* [max(tx.start, start_i), min(tx.end, end_i)); its stateUpdate is the
\* candidate the predicates returned, once per update; and one update that
\* covers the transaction's range gives validRanges = [tx.range].
C21_OneRangePerUpdate ==
  \A c \in ECalls :
    epc[c] = "done" =>
      LET vr == eres[c].validRanges
          ups == eups[c]
          tx == etx[c]
      IN /\ Len(vr) = Len(ups)
         /\ \A i \in 1..Len(ups) :
              /\ vr[i].start = MaxOf(tx.range.start, ups[i].range.start)
              /\ vr[i].end = MinOf(tx.range.end, ups[i].range.end)
         /\ Len(eyield[c]) = Len(ups)
         /\ \A k \in 1..Len(eyield[c]) : eres[c].stateUpdate = eyield[c][k]
         /\ (Len(ups) = 1 /\ Contains(ups[1].range, tx.range)) => vr = <<tx.range>>

\* The call succeeded on two updates, the first reaching beyond the
\* transaction's range.
C21_Witness ==
  \E c \in ECalls :
    /\ epc[c] = "done"
    /\ Len(eups[c]) = 2
    /\ eres[c].validRanges[1] # eups[c][1].range
    /\ eres[c].stateUpdate = eyield[c][2]

C23_AlwaysInvalidUpdate ==
  \A c \in ECalls :
    (Finished(c) /\ \E i \in 1..Len(eups[c]) : ~WellFormedRange(eups[c][i].range))
      => (epc[c] = "failed" /\ eerr[c] = "InvalidVerifiedUpdate")

\* C23 as amended: a malformed verified update is never passed over and no
\* result is returned, whatever was done for the updates before it; its
\* predicate is never resolved or invoked; and when the call fails at that
\* update the error is the invalid-verified-update error.
C23_MalformedNeverProcessed ==
  \A c \in ECalls :
    \A i \in 1..Len(eups[c]) :
      ~WellFormedRange(eups[c][i].range) =>
        /\ epc[c] # "done"
        /\ eidx[c] <= i
        /\ egets[c] < i
        /\ Len(eyield[c]) < i
        /\ (eidx[c] = i => epc[c] \in {"loop", "failed"})
        /\ (epc[c] = "failed" /\ eidx[c] = i) => eerr[c] = "InvalidVerifiedUpdate"

\* The call failed with the invalid-verified-update error at its second
\* update, after the first one went through every check.
C23_Witness ==
  \E c \in ECalls :
    /\ eerr[c] = "InvalidVerifiedUpdate"
    /\ eidx[c] = 2
    /\ Len(eyield[c]) = 1
    /\ Len(eres[c].validRanges) = 1

NotImplementedErrors ==
  {"DefaultStateManager.ingestHistoryProof is not implemented.",
   "DefaultStateManager.queryState is not implemented."}

\* C26: a call that was made without a transaction, which is a call of
\* ingestHistoryProof or queryState, has failed with the not-implemented
\* error of its method, has read nothing and returned nothing; and the step
\* of such a call leaves the store, the registry, the engine's fields and
\* every other call as they were.
C26_NotImplemented ==
  /\ [](\A c \in ECalls :
          /\ (epc[c] # "idle" /\ etx[c] = NoTx) =>
               /\ epc[c] = "failed"
               /\ eerr[c] \in NotImplementedErrors
          /\ eerr[c] \in NotImplementedErrors =>
               /\ epc[c] = "failed"
               /\ ereads[c] = 0 /\ egets[c] = 0
               /\ eups[c] = <<>> /\ eyield[c] = <<>>
               /\ eres[c] = EmptyResult)
  /\ [][\A c \in ECalls :
          (eerr'[c] \in NotImplementedErrors /\ eerr[c] = None) =>
            /\ UNCHANGED <<stateDB, pluginManager, engine>>
            /\ \A d \in ECalls \ {c} :
                 /\ epc'[d] = epc[d] /\ eres'[d] = eres[d] /\ eerr'[d] = eerr[d]
                 /\ eups'[d] = eups[d] /\ eidx'[d] = eidx[d]]_vars

\* queryState failed while an executeTransaction call waited for its
\* predicate, on a store that holds updates.
C26_Witness ==
  /\ eerr[2] = "DefaultStateManager.queryState is not implemented."
  /\ eerr[1] = None
  /\ epc[1] = "transition"
  /\ Len(stateDB) > 0

\* The check that the update of index k fails, None if it passes them all,
\* "pending" if its predicate has not returned: well-formedness, overlap,
\* predicate resolution, block number, sameness with the first candidate.
FailingCheck(c, k) ==
  LET u == eups[c][k]
  IN IF ~WellFormedRange(u.range) THEN "InvalidVerifiedUpdate"
     ELSE IF ~Overlaps(etx[c], u) THEN "RangeMismatch"
     ELSE IF ~Registered(u) THEN "UnknownPredicate"
     ELSE IF k > Len(eyield[c]) THEN "pending"
     ELSE IF ~RightBlock(c, k) THEN "BlockNumberMismatch"
     ELSE IF eyield[c][k] # eyield[c][1] THEN "InconsistentTransition"
     ELSE None

\* C27: the updates before the one the call is at passed every check; a
\* call that failed in the loop failed at the first update that fails a
\* check, with the error of the first check that update fails; a call that
\* returned passed every update; predicates are invoked one per update, in
\* order, never for an update after the failing one, and never for the
\* failing one unless it failed on what its predicate returned.
C27_FirstFailingCheck ==
  \A c \in ECalls :
    (WellFormedTx(etx[c]) /\ ereads[c] = 1) =>
      /\ \A k \in 1..Len(eups[c]) : k < eidx[c] => FailingCheck(c, k) = None
      /\ epc[c] = "done" => eidx[c] = Len(eups[c]) + 1
      /\ epc[c] = "failed" =>
           /\ eidx[c] \in 1..Len(eups[c])
           /\ eerr[c] = FailingCheck(c, eidx[c])
           /\ Len(eyield[c]) =
                IF eerr[c] \in {"BlockNumberMismatch", "InconsistentTransition"}
                  THEN eidx[c] ELSE eidx[c] - 1
      /\ Len(eyield[c]) <= egets[c]
      /\ egets[c] <= eidx[c]
      /\ egets[c] <= Len(eups[c])

\* The call failed at its second update on a candidate that has the wrong
\* block number and also differs from the first candidate.
C27_Witness ==
  \E c \in ECalls :
    /\ eerr[c] = "BlockNumberMismatch"
    /\ eidx[c] = 2
    /\ Len(eyield[c]) = 2
    /\ eyield[c][2] # eyield[c][1]

\* C28: a call for a well-formed transaction to which the store answered
\* with no verified update has not failed; when it has ended it has
\* returned no valid range and an undefined stateUpdate, and it has
\* resolved and invoked no predicate.
C28_EmptyAnswer ==
  \A c \in ECalls :
    (WellFormedTx(etx[c]) /\ ereads[c] = 1 /\ eups[c] = <<>>) =>
      /\ epc[c] \in {"loop", "done"}
      /\ eerr[c] = None
      /\ eres[c].validRanges = <<>>
      /\ eres[c].stateUpdate = Undefined
      /\ egets[c] = 0
      /\ eyield[c] = <<>>

\* The call returned after the store answered with nothing.
C28_Witness ==
  \E c \in ECalls :
    /\ epc[c] = "done"
    /\ ereads[c] = 1
    /\ eups[c] = <<>>
    /\ WellFormedTx(etx[c])

(***************************************************************************)
(* Further properties of the bridge                                        *)
(***************************************************************************)
\* The transactions the ledger holds under the hash the request asked for.
ReceiptHolders == {t \in ledgerTxs : keccak256(t) = qtmp}
ReceiptReturned == qmethod = getTransactionReceipt /\ qpc = "done"

\* C24: every eth_call and eth_estimateGas the request forwards is from
\* the zero address to the execution manager, not to the address the
\* caller named; every internal transaction signed by a sendRawTransaction
\* call, and every one the ledger accepted, goes to the execution manager
\* and not to the rollup entrypoint, with gas price 0 and value 0; and a
\* gasPrice request is answered "0x0" without asking the ledger.
C24_AddressedToSandbox ==
  /\ \A i \in 1..Len(qsent) :
       qsent[i].method \in {call, estimateGas} =>
         /\ qsent[i].params[1].to = ExecutionManagerAddress
         /\ qsent[i].params[1].to # qargs[1].to
         /\ qsent[i].params[1].from = ZERO_ADDRESS
  /\ \A b \in BCalls :
       binternal[b] # NoHex =>
         /\ binternal[b][3].to = ExecutionManagerAddress
         /\ binternal[b][3].to # EntrypointOf(braw[b])
         /\ binternal[b][3].gasPrice = 0
         /\ binternal[b][3].value = 0
  /\ \A t \in ledgerTxs :
       t[3].to = ExecutionManagerAddress /\ t[3].gasPrice = 0 /\ t[3].value = 0
  /\ (qmethod = gasPrice /\ qbody) =>
       (qpc = "done" /\ qres = <<"0x", "0">> /\ qsent = <<>>)

\* An eth_call was forwarded and answered after a sendRawTransaction call
\* for a contract creation had its internal transaction accepted.
C24_Witness ==
  /\ qmethod = call
  /\ qpc = "done"
  /\ \E b \in qdone : braw[b][3].to = Null /\ binternal[b] \in ledgerTxs

\* C25: a receipt that was returned has the zero address as `from`, not
\* the wallet that sent the internal transaction; its contractAddress is
\* the created contract's address when the logs of the internal
\* transaction name a created contract, and is no address when they name
\* none.
C25_FromAndContractAddress ==
  ReceiptReturned =>
    /\ qres.from = ZERO_ADDRESS
    /\ \A t \in ReceiptHolders :
         LET created == {i \in 1..Len(InternalReceipt(t).logs) :
                           InternalReceipt(t).logs[i].event = "CreatedContract"}
         IN /\ InternalReceipt(t).from # qres.from
            /\ created # {} =>
                 \E i \in created :
                   qres.contractAddress = InternalReceipt(t).logs[i].address
            /\ created = {} => Len(qres.contractAddress) # Len(ZERO_ADDRESS)

\* A receipt was returned for a transaction that created no contract.
C25_Witness ==
  /\ ReceiptReturned
  /\ qres.to = AddressA
  /\ qres.from = ZERO_ADDRESS
  /\ qres.contractAddress = UndefinedParam

\* C29: a receipt that was returned is that of an internal transaction the
\* ledger holds under the hash the store gave for the ovmTxHash; when the
\* ledger holds none under that hash, because the ovmTxHash was never
\* mapped or the internal transaction is not accepted, the request fails;
\* and no step of a getTransactionReceipt request changes the store, the
\* wallet's count or the ledger.
C29_ReceiptOnlyWhenHeld ==
  /\ [](ReceiptReturned =>
          /\ ReceiptHolders # {}
          /\ qsent = <<[method |-> getTransactionReceipt, params |-> <<qtmp>>]>>
          /\ qres.transactionHash = qtmp)
  /\ [][(qpc = "receipt" /\ qpc' # "receipt" /\ ReceiptHolders = {}) =>
          (qpc' = "failed" /\ qres' = qres)]_vars
  /\ [][(qmethod' = getTransactionReceipt /\ qvars' # qvars) =>
          UNCHANGED <<hashMap, walletCount, ledgerTxs>>]_vars

\* A request for an ovmTxHash that was never mapped failed on the ledger's
\* null, on a ledger that holds a transaction.
C29_Witness ==
  /\ qmethod = getTransactionReceipt
  /\ qerr = "TypeError"
  /\ qtmp = NoHex
  /\ hashMap[add0x(qargs[1])] = NoHex
  /\ ledgerTxs # {}

\* The fields the conversion writes.
ConvertedFields == {"logs", "to", "from", "contractAddress"}

\* C30: a receipt that was returned has the fields of the ledger's
\* receipt, and every field but logs, to, from and contractAddress has the
\* ledger's value; its transactionHash is the internal transaction's hash,
\* not the ovmTxHash that was asked for.
C30_OtherFieldsUnchanged ==
  ReceiptReturned =>
    /\ ReceiptHolders # {}
    /\ \A t \in ReceiptHolders :
         /\ DOMAIN qres = DOMAIN InternalReceipt(t)
         /\ \A f \in DOMAIN InternalReceipt(t) \ ConvertedFields :
              qres[f] = InternalReceipt(t)[f]
         /\ qres.transactionHash = keccak256(t)
         /\ qres.transactionHash # add0x(qargs[1])

\* A receipt was returned for the second transaction the ledger accepted.
C30_Witness ==
  /\ ReceiptReturned
  /\ qres.transactionHash = qtmp
  /\ qres.status = 1
  /\ qres.blockNumber > 2
  /\ qres.gasUsed = 21000

(***************************************************************************)
(* Parameter defaulting                                                    *)
(***************************************************************************)
\* The methods that take an object or address and a block tag, and those
\* that take nothing.
BlockTagMethods == {call, estimateGas, getCode, getTransactionCount}
NoParameterMethods ==
  {blockNumber, gasPrice, getExecutionManagerAddress, networkVersion}

\* The block tag the request's method went on with: the one call and
\* getTransactionCount forward to the ledger, and the one getCode tests.
TagForwarded(tag) ==
  /\ qmethod \in {call, getTransactionCount} =>
       (qsent # <<>> /\ qsent[1].params[2] = tag)
  /\ qmethod = getCode => ((qerr = "UnsupportedBlockTag") <=> (tag # "latest"))

\* C31: a request for call, estimateGas, getCode or getTransactionCount
\* with the first parameter alone has passed the parameter check and its
\* method ran with that parameter and "latest"; one with both parameters
\* has passed it and its method ran with the two as given; and a request
\* without a parameter list has passed it exactly when its method takes no
\* parameter, failing with InvalidParameters when it is another supported
\* method.
C31_DefaultBlockTag ==
  Handled =>
    /\ (qmethod \in BlockTagMethods /\ qparams.given /\ Len(qparams.list) = 1) =>
         /\ qbody
         /\ qerr # "InvalidParameters"
         /\ qargs = <<qparams.list[1], "latest">>
         /\ TagForwarded("latest")
    /\ (qmethod \in BlockTagMethods /\ qparams.given /\ Len(qparams.list) = 2) =>
         /\ qbody
         /\ qerr # "InvalidParameters"
         /\ qargs = qparams.list
         /\ TagForwarded(qparams.list[2])
    /\ ~qparams.given =>
         /\ qbody <=> qmethod \in NoParameterMethods
         /\ (qmethod \in SupportedMethods \ NoParameterMethods) =>
              (qpc = "failed" /\ qerr = "InvalidParameters"
                 /\ qsent = <<>> /\ qsandbox = <<>> /\ qslot = 0)

\* A getTransactionCount request that gave the address alone was answered
\* by the ledger, asked at "latest".
C31_Witness ==
  /\ qmethod = getTransactionCount
  /\ qparams = [given |-> TRUE, list |-> <<AddressA>>]
  /\ qpc = "done"
  /\ qargs = <<AddressA, "latest">>
  /\ qsent = <<[method |-> getTransactionCount, params |-> <<AddressA, "latest">>]>>

====
